---- MODULE Spec2Model ----
(***************************************************************************)
(* Model of sonybraviaremote: TVConfig, TV.connect, TV._attempt_auth,      *)
(* TV.__init__, TV.irc_codes, TV.is_on, TV._send_irc_code and the action   *)
(* methods of TV.  The television is the environment: every HTTP response  *)
(* (status, headers, decoded body) is an input of the call that reads it.  *)
(* Every call records the requests it issued, the responses it read and    *)
(* the callback invocations it made, in program order.                     *)
(***************************************************************************)
EXTENDS Integers, Sequences, FiniteSets, TLC

VARIABLES
    phase,        \* "new": connect not yet called; "active": connect returned a TV;
                  \* "failed": connect raised
    tv,           \* the TV object connect returned: auth_key, config, irc_codes
                  \* (the attribute _irc_codes: name -> code)
    connect_log,  \* events of the connect call, in order
    connect_out,  \* outcome of the connect call
    last          \* the call in progress or last made on the session:
                  \* method, args, log, outcome

vars == <<phase, tv, connect_log, connect_out, last>>

----------------------------------------------------------------------------
(* Bounds of the model *)

MaxEntries == 1       \* records in result[1] of a discovery response
MaxAmount == 2        \* largest explicit repeat count passed to volume_up/down

(* Program constants *)

HTTP_OK == 200        \* the status every handler compares with
DefaultAmount == 5    \* volume_up(self, amount=5), volume_down(self, amount=5)

----------------------------------------------------------------------------
(* Input domains: what the television and the caller can supply *)

Statuses == {200, 500}
SetCookieValues == {"", "auth=A", "auth=B"}
Pincodes == {"", "1234"}
\* a code table of a television: one code per command name
DeviceCodes ==
    [Mute |-> "AAAAAQAAAAEAAAAUAw==", VolumeUp |-> "AAAAAQAAAAEAAAASAw==",
     VolumeDown |-> "AAAAAQAAAAEAAAATAw==", Pause |-> "AAAAAgAAAJcAAAAZAw==",
     Play |-> "AAAAAgAAAJcAAAAaAw==", PowerOff |-> "AAAAAQAAAAEAAAAvAw==",
     WakeUp |-> "AAAAAQAAAAEAAAAuAw==", Home |-> "AAAAAQAAAAEAAABgAw==",
     Netflix |-> "AAAAAgAAABoAAAB8Aw==", Enter |-> "AAAAAQAAAAEAAAALAw==",
     Confirm |-> "AAAAAQAAAAEAAABlAw=="]
EntryNames == DOMAIN DeviceCodes
\* a second code a television may report for Mute
OtherMuteCode == "AAAAAgAAAMQAAABOAw=="
PowerStatuses == {"active", "Active", "standby"}
Amounts == (0 - 1)..MaxAmount

\* response.headers: a mapping that may or may not hold Set-Cookie
HeaderMaps == {[h \in D |-> v] : D \in SUBSET {"Set-Cookie"}, v \in SetCookieValues}
AuthResponses == [status : Statuses, headers : HeaderMaps]

Entries == {[name |-> n, value |-> DeviceCodes[n]] : n \in EntryNames}
           \cup {[name |-> "Mute", value |-> OtherMuteCode]}
EntryLists == UNION {[1..n -> Entries] : n \in 0..MaxEntries}
\* decoded JSON of a getRemoteControllerInfo response: result too short, or
\* result = [{}, [entries]]; only result[1] is kept
DiscoveryBodies == {[result_len |-> 0, entries |-> <<>>]}
                   \cup {[result_len |-> 2, entries |-> es] : es \in EntryLists}
DiscoveryResponses == [status : Statuses, json : DiscoveryBodies]

\* decoded JSON of a getPowerStatus response: result = [] or [{status: s}]
PowerBodies == {[result |-> <<>>]} \cup {[result |-> <<[status |-> s]>>] : s \in PowerStatuses}
PowerResponses == [status : Statuses, json : PowerBodies]

IRCCResponses == [status : Statuses]
\* positional arguments of volume_up / volume_down: none, or the amount
VolumeArgs == {<<>>} \cup {<<n>> : n \in Amounts}

----------------------------------------------------------------------------
(* Python values and outcomes *)

PyNone == [type |-> "NoneType", str |-> ""]
PyBool(b) == [type |-> "bool", str |-> IF b THEN "True" ELSE "False"]
PyStr(s) == [type |-> "str", str |-> s]
PyTV == [type |-> "TV", str |-> ""]
PyDict == [type |-> "dict", str |-> ""]

\* truth value testing, as `if auth_key:` and `if pincode:` apply it
Truthy(v) ==
    CASE v.type = "bool" -> v.str = "True"
      [] v.type = "str" -> v.str # ""
      [] v.type = "NoneType" -> FALSE
      [] OTHER -> TRUE

Return(v) == [kind |-> "return", value |-> v, exc |-> "", arg |-> ""]
Raise(e, a) == [kind |-> "raise", value |-> PyNone, exc |-> e, arg |-> a]
NoOutcome == [kind |-> "none", value |-> PyNone, exc |-> "", arg |-> ""]

----------------------------------------------------------------------------
(* Events: what a call sends, reads and invokes, in program order *)

NoAuth == <<>>
EmptyDict == [k \in {} |-> ""]

DictSet(d, k, v) == [x \in (DOMAIN d) \cup {k} |-> IF x = k THEN v ELSE d[x]]

Request(url, data, auth, headers) ==
    [kind |-> "request", url |-> url, data |-> data, auth |-> auth, headers |-> headers]
Response(resp) ==
    [kind |-> "response", resp |-> resp]
Callback(pin) ==
    [kind |-> "callback", returned |-> pin]

IsRequestTo(ev, path) == ev.kind = "request" /\ ev.url[3] = path
IsDiscovery(ev) ==
    IsRequestTo(ev, "/sony/system") /\ ev.data.method = "getRemoteControllerInfo"

\* the requests of a log, in order
RECURSIVE RequestsOf(_)
RequestsOf(log) ==
    IF log = <<>> THEN <<>>
    ELSE IF Head(log).kind = "request" THEN <<Head(log)>> \o RequestsOf(Tail(log))
    ELSE RequestsOf(Tail(log))

\* the positions of a log holding a request to path
RequestPositions(log, path) == {i \in DOMAIN log : IsRequestTo(log[i], path)}
DiscoveryPositions(log) == {i \in DOMAIN log : IsDiscovery(log[i])}

----------------------------------------------------------------------------
(* TVConfig *)

TVConfig(host, device_name) == [host |-> host, device_name |-> device_name]

Configs == {TVConfig("192.168.1.20", "py-remote")}

----------------------------------------------------------------------------
(* TV._AttemptAuth(config, pincode=None) *)

AuthPayload(config) ==
    [id |-> 13, method |-> "actRegister", version |-> "1.0",
     params |-> <<[clientid |-> <<config.device_name, ":1">>,
                   nickname |-> config.device_name],
                  <<[clientid |-> <<config.device_name, ":1">>, value |-> "yes",
                     nickname |-> config.device_name, function |-> "WOL"]>> >>]

\* params['auth'] = ('', pincode) only `if pincode:`
AuthParam(pincode) == IF Truthy(pincode) THEN <<"", pincode.str>> ELSE NoAuth

\* the value _attempt_auth hands back for a response
AuthResult(resp) ==
    IF resp.status # HTTP_OK THEN Return(PyBool(FALSE))
    ELSE IF "Set-Cookie" \notin DOMAIN resp.headers THEN Raise("KeyError", "Set-Cookie")
    ELSE Return(PyStr(resp.headers["Set-Cookie"]))

AttemptAuth(config, pincode, resp) ==
    [log |-> <<Request(<<"http://", config.host, "/sony/accessControl">>,
                       AuthPayload(config), AuthParam(pincode), EmptyDict),
               Response(resp)>>,
     out |-> AuthResult(resp)]

----------------------------------------------------------------------------
(* TV.irc_codes(self) *)

RECURSIVE BuildCodes(_, _)
BuildCodes(entries, acc) ==
    IF entries = <<>> THEN acc
    ELSE BuildCodes(Tail(entries), DictSet(acc, Head(entries).name, Head(entries).value))

\* what a non-200 response raises in irc_codes and is_on: the argument of
\* RuntimeError(response.body) is evaluated first, and a requests Response
\* has no attribute body
SystemStatusError == Raise("AttributeError", "body")

IrcCodes(config, resp) ==
    LET req == Request(<<"http://", config.host, "/sony/system">>,
                       [method |-> "getRemoteControllerInfo", params |-> <<>>,
                        id |-> 10, version |-> "1.0"],
                       NoAuth,
                       [h \in {"SOAPAction"} |-> "urn:schemas-sony-com:service:IRCC:1#X_SendIRCC"])
        \* the body is kept as the mapping built from it, not in the log
        log == <<req, Response([status |-> resp.status])>>
    IN  IF resp.status # HTTP_OK
        THEN [log |-> log, out |-> SystemStatusError, codes |-> EmptyDict]
        ELSE IF resp.json.result_len < 2
        THEN [log |-> log, out |-> Raise("IndexError", "result"), codes |-> EmptyDict]
        ELSE [log |-> log, out |-> Return(PyDict),
              codes |-> BuildCodes(resp.json.entries, EmptyDict)]

----------------------------------------------------------------------------
(* TV.__init__(self, auth_key, config) *)

NoTV == [auth_key |-> PyNone, config |-> TVConfig("", ""), irc_codes |-> EmptyDict]

\* variant: the mapping is not fetched at construction
TVInitLazy(key, config, dresp) ==
    [log |-> <<>>, out |-> Return(PyTV),
     tv |-> [auth_key |-> key, config |-> config, irc_codes |-> EmptyDict]]

TVInit(key, config, dresp) ==
    LET r == IrcCodes(config, dresp)
    IN  IF r.out.kind = "raise"
        THEN [log |-> r.log, out |-> r.out, tv |-> NoTV]
        ELSE [log |-> r.log, out |-> Return(PyTV),
              tv |-> [auth_key |-> key, config |-> config, irc_codes |-> r.codes]]

----------------------------------------------------------------------------
(* TV.connect(cls, config, callback) *)

\* variant: connect falls off its end instead of raising
PairingErrorSwallowed == Return(PyNone)

PairingError == Raise("RuntimeError", "Could not pair with the TV")

Prepend(log, r) == [r EXCEPT !.log = log \o r.log]

ConnectRun(config, r1, pin, r2, dresp) ==
    LET a1 == AttemptAuth(config, PyNone, r1)
        a2 == AttemptAuth(config, PyStr(pin), r2)
        log2 == a1.log \o <<Callback(pin)>> \o a2.log
    IN  IF a1.out.kind = "raise" THEN [log |-> a1.log, out |-> a1.out, tv |-> NoTV]
        ELSE IF Truthy(a1.out.value) THEN Prepend(a1.log, TVInit(a1.out.value, config, dresp))
        ELSE IF a2.out.kind = "raise" THEN [log |-> log2, out |-> a2.out, tv |-> NoTV]
        ELSE IF Truthy(a2.out.value) THEN Prepend(log2, TVInit(a2.out.value, config, dresp))
        ELSE [log |-> log2, out |-> PairingError, tv |-> NoTV]

----------------------------------------------------------------------------
(* TV.is_on(self) *)

\* variant: on unless the status is "standby"
IsOnUnlessStandby(self, resp) ==
    LET req == Request(<<"http://", self.config.host, "/sony/system">>,
                       [method |-> "getPowerStatus", params |-> <<>>,
                        id |-> 10, version |-> "1.0"],
                       NoAuth, EmptyDict)
        log == <<req, Response(resp)>>
    IN  IF resp.status # HTTP_OK THEN [log |-> log, out |-> SystemStatusError]
        ELSE IF Len(resp.json.result) < 1
        THEN [log |-> log, out |-> Raise("IndexError", "result")]
        ELSE [log |-> log,
              out |-> Return(PyBool(resp.json.result[1].status # "standby"))]

IsOn(self, resp) ==
    LET req == Request(<<"http://", self.config.host, "/sony/system">>,
                       [method |-> "getPowerStatus", params |-> <<>>,
                        id |-> 10, version |-> "1.0"],
                       NoAuth, EmptyDict)
        log == <<req, Response(resp)>>
    IN  IF resp.status # HTTP_OK THEN [log |-> log, out |-> SystemStatusError]
        ELSE IF Len(resp.json.result) < 1
        THEN [log |-> log, out |-> Raise("IndexError", "result")]
        ELSE [log |-> log,
              out |-> Return(PyBool(resp.json.result[1].status = "active"))]

----------------------------------------------------------------------------
(* TV._send_irc_code(self, code) *)

\* variant: the envelope is sent with its placeholder left in
IRCCPayloadUnformatted(value) ==
    <<"<?xml version=\"1.0\"?>",
      "<s:Envelope xmlns:s=\"http://schemas.xmlsoap.org/soap/envelope/\" s:encodingStyle=\"http://schemas.xmlsoap.org/soap/encoding/\">",
      "<s:Body>",
      "<u:X_SendIRCC xmlns:u=\"urn:schemas-sony-com:service:IRCC:1\">",
      "<IRCCCode>", "%s", "</IRCCCode>",
      "</u:X_SendIRCC>",
      "</s:Body>",
      "</s:Envelope>">>

\* the envelope with the code substituted for %s
IRCCPayload(value) ==
    <<"<?xml version=\"1.0\"?>",
      "<s:Envelope xmlns:s=\"http://schemas.xmlsoap.org/soap/envelope/\" s:encodingStyle=\"http://schemas.xmlsoap.org/soap/encoding/\">",
      "<s:Body>",
      "<u:X_SendIRCC xmlns:u=\"urn:schemas-sony-com:service:IRCC:1\">",
      "<IRCCCode>", value, "</IRCCCode>",
      "</u:X_SendIRCC>",
      "</s:Body>",
      "</s:Envelope>">>

IRCCHeaders(self) ==
    [h \in {"Cookie", "SOAPAction"} |->
        IF h = "Cookie" THEN self.auth_key.str
        ELSE "\"urn:schemas-sony-com:service:IRCC:1#X_SendIRCC\""]

\* the outcome of _send_irc_code once the response is read
DispatchResult(resp) ==
    IF resp.status # HTTP_OK THEN Raise("RuntimeError", "response") ELSE Return(PyNone)

\* variant: the lookup is self._irc_codes.get(code), which yields None for
\* an absent name instead of raising
SendIrcCodeGet(self, code, resp) ==
    [log |-> <<Request(<<"http://", self.config.host, "/sony/IRCC">>,
                       IRCCPayload(IF code \in DOMAIN self.irc_codes
                                   THEN self.irc_codes[code] ELSE "None"),
                       NoAuth, IRCCHeaders(self)),
               Response(resp)>>,
     out |-> DispatchResult(resp)]

SendIrcCode(self, code, resp) ==
    IF code \notin DOMAIN self.irc_codes
    THEN [log |-> <<>>, out |-> Raise("KeyError", code)]
    ELSE [log |-> <<Request(<<"http://", self.config.host, "/sony/IRCC">>,
                            IRCCPayload(self.irc_codes[code]), NoAuth, IRCCHeaders(self)),
                    Response(resp)>>,
          out |-> DispatchResult(resp)]

\* variant: a failing dispatch is swallowed and the loop goes on
RECURSIVE VolumeLoopKeepGoing(_, _, _, _, _)
VolumeLoopKeepGoing(self, code, amount, resps, i) ==
    IF i >= amount THEN [log |-> <<>>, out |-> Return(PyNone)]
    ELSE LET r == [log |-> <<Request(<<"http://", self.config.host, "/sony/IRCC">>,
                                     IRCCPayload(IF code \in DOMAIN self.irc_codes
                                                 THEN self.irc_codes[code] ELSE "None"),
                                     NoAuth, IRCCHeaders(self)),
                             Response(resps[i + 1])>>]
         IN  Prepend(r.log, VolumeLoopKeepGoing(self, code, amount, resps, i + 1))

\* for _ in range(0, amount): self._send_irc_code(code), from iteration i on
RECURSIVE VolumeLoop(_, _, _, _, _)
VolumeLoop(self, code, amount, resps, i) ==
    IF i >= amount THEN [log |-> <<>>, out |-> Return(PyNone)]
    ELSE LET r == SendIrcCode(self, code, resps[i + 1])
         IN  IF r.out.kind = "raise" THEN r
             ELSE Prepend(r.log, VolumeLoop(self, code, amount, resps, i + 1))

\* variant: the default repeat count is 1
AmountOfDefaultOne(args) == IF Len(args) = 0 THEN 1 ELSE args[1]

\* the amount a call of volume_up / volume_down runs with
AmountOf(args) == IF Len(args) = 0 THEN DefaultAmount ELSE args[1]

----------------------------------------------------------------------------
(* State machine *)

NoCall == [method |-> "", args |-> <<>>, log |-> <<>>, out |-> NoOutcome]

Init ==
    /\ phase = "new"
    /\ tv = NoTV
    /\ connect_log = <<>>
    /\ connect_out = NoOutcome
    /\ last = NoCall

connect ==
    /\ phase = "new"
    /\ \E config \in Configs, r1 \in AuthResponses, pin \in Pincodes,
          r2 \in AuthResponses, dresp \in DiscoveryResponses :
          LET r == ConnectRun(config, r1, pin, r2, dresp)
          IN  /\ phase' = IF r.out.kind = "return" THEN "active" ELSE "failed"
              /\ tv' = r.tv
              /\ connect_log' = r.log
              /\ connect_out' = r.out
    /\ UNCHANGED last

\* the caller invokes a method of the session connect returned
Methods ==
    {"irc_codes", "is_on", "mute", "volume_up", "volume_down", "pause", "play",
     "power_off", "wake_up", "home", "netflix", "enter", "confirm"}
ArgsOf(method) == IF method \in {"volume_up", "volume_down"} THEN VolumeArgs ELSE {<<>>}

invoke ==
    /\ phase = "active"
    /\ last.out.kind # "none" \/ last = NoCall
    /\ \E method \in Methods, args \in VolumeArgs :
          /\ args \in ArgsOf(method)
          /\ last' = [method |-> method, args |-> args, log |-> <<>>, out |-> NoOutcome]
    /\ UNCHANGED <<phase, tv, connect_log, connect_out>>

\* the invoked method runs to its end with outcome r
Run(method, r) ==
    /\ phase = "active"
    /\ last.method = method
    /\ last.out.kind = "none"
    /\ last' = [last EXCEPT !.log = r.log, !.out = r.out]
    /\ UNCHANGED <<phase, tv, connect_log, connect_out>>

Dispatch(method, code) ==
    \E resp \in IRCCResponses : Run(method, SendIrcCode(tv, code, resp))

Volume(method, code) ==
    /\ last.method = method
    /\ LET amount == AmountOf(last.args)
       IN  \E resps \in [1..(IF amount > 0 THEN amount ELSE 0) -> IRCCResponses] :
               Run(method, VolumeLoop(tv, code, amount, resps, 0))

irc_codes ==
    \E resp \in DiscoveryResponses :
        LET r == IrcCodes(tv.config, resp)
        IN  Run("irc_codes", [log |-> r.log, out |-> r.out])

is_on == \E resp \in PowerResponses : Run("is_on", IsOn(tv, resp))

mute == Dispatch("mute", "Mute")
volume_up == Volume("volume_up", "VolumeUp")
volume_down == Volume("volume_down", "VolumeDown")
pause == Dispatch("pause", "Pause")
play == Dispatch("play", "Play")
power_off == Dispatch("power_off", "PowerOff")
wake_up == Dispatch("wake_up", "WakeUp")
home == Dispatch("home", "Home")
netflix == Dispatch("netflix", "Netflix")
enter == Dispatch("enter", "Enter")
confirm == Dispatch("confirm", "Confirm")

Next ==
    \/ connect
    \/ invoke
    \/ irc_codes
    \/ is_on
    \/ mute
    \/ volume_up
    \/ volume_down
    \/ pause
    \/ play
    \/ power_off
    \/ wake_up
    \/ home
    \/ netflix
    \/ enter
    \/ confirm

Spec == Init /\ [][Next]_vars

----------------------------------------------------------------------------
(* Vocabulary of the properties *)

ConnectDone == phase # "new"
CallDone == phase = "active" /\ last.out.kind # "none" /\ last # NoCall

SingleMethods ==
    {"mute", "pause", "play", "power_off", "wake_up", "home", "netflix", "enter", "confirm"}
VolumeMethods == {"volume_up", "volume_down"}
ActionMethods == SingleMethods \cup VolumeMethods

\* the command name each action method stands for
CommandOf(method) ==
    CASE method = "mute" -> "Mute"
      [] method = "volume_up" -> "VolumeUp"
      [] method = "volume_down" -> "VolumeDown"
      [] method = "pause" -> "Pause"
      [] method = "play" -> "Play"
      [] method = "power_off" -> "PowerOff"
      [] method = "wake_up" -> "WakeUp"
      [] method = "home" -> "Home"
      [] method = "netflix" -> "Netflix"
      [] method = "enter" -> "Enter"
      [] method = "confirm" -> "Confirm"
      [] OTHER -> ""

\* the content of the IRCCCode element of a control envelope
IRCCCodeOf(data) == data[(CHOOSE i \in DOMAIN data : data[i] = "<IRCCCode>") + 1]

AuthPositions == RequestPositions(connect_log, "/sony/accessControl")
CallbackPositions == {i \in DOMAIN connect_log : connect_log[i].kind = "callback"}
\* the response an authentication request at position i was answered with
AuthResponseAt(i) == connect_log[i + 1].resp
HasCookie(r) == "Set-Cookie" \in DOMAIN r.headers
\* connect treated the attempt at position i as a success: it went on to build the TV
TreatedAsSuccess(i) ==
    /\ Len(connect_log) >= i + 2
    /\ IsDiscovery(connect_log[i + 2])

LastRequests == RequestsOf(last.log)
\* requests and responses alternate: each request is answered before the next is sent
Sequential(log) ==
    /\ Len(log) % 2 = 0
    /\ \A i \in DOMAIN log :
          log[i].kind = (IF i % 2 = 1 THEN "request" ELSE "response")
\* the statuses of the responses of a log, in order
StatusesOf(log) == [i \in 1..(Len(log) \div 2) |-> log[2 * i].resp.status]

----------------------------------------------------------------------------
(* C1: for every run of connect, the challenge resolver is invoked zero
   times if the first authentication attempt succeeds (status 200) and
   exactly once if it fails; the invocation lies after the first
   authentication request and before the second, and the second request
   carries the pairing code the resolver returned. *)
C1_ResolverContract ==
    ConnectDone =>
        /\ AuthResponseAt(1).status = HTTP_OK => CallbackPositions = {}
        /\ AuthResponseAt(1).status # HTTP_OK =>
              /\ CallbackPositions = {3}
              /\ AuthPositions = {1, 4}
              /\ connect_log[4].auth = <<"", connect_log[3].returned>>

(* C2: when both authentication attempts of connect fail (each is answered
   with a non-200 status), connect raises the pairing error after exactly
   two authentication requests, returns no session and issues no discovery
   request. *)
C2_BothAttemptsFail ==
    (ConnectDone /\ \A i \in AuthPositions : AuthResponseAt(i).status # HTTP_OK) =>
        /\ phase = "failed"
        /\ connect_out = Raise("RuntimeError", "Could not pair with the TV")
        /\ Cardinality(AuthPositions) = 2
        /\ tv = NoTV
        /\ DiscoveryPositions(connect_log) = {}

C2_Witness ==
    /\ phase = "failed"
    /\ Cardinality(AuthPositions) = 2
    /\ \A i \in AuthPositions : AuthResponseAt(i).status # HTTP_OK
    /\ connect_out.kind = "raise"

(* C3: an authentication attempt succeeds exactly when its response has
   status 200, whatever the value of the Set-Cookie header; connect then
   returns a session whose credential is the Set-Cookie value of the first
   succeeding attempt, and every command dispatch of that session sends that
   credential as its Cookie. *)
OkAttempts == {i \in AuthPositions : AuthResponseAt(i).status = HTTP_OK}
FirstOf(S) == CHOOSE i \in S : \A j \in S : i <= j

C3_SuccessIffStatus200 ==
    /\ ConnectDone =>
          \A i \in AuthPositions :
              HasCookie(AuthResponseAt(i)) =>
                  (TreatedAsSuccess(i) <=> AuthResponseAt(i).status = HTTP_OK)
    /\ phase = "active" =>
          /\ OkAttempts # {}
          /\ HasCookie(AuthResponseAt(FirstOf(OkAttempts)))
          /\ tv.auth_key = PyStr(AuthResponseAt(FirstOf(OkAttempts)).headers["Set-Cookie"])
    /\ CallDone =>
          \A i \in RequestPositions(last.log, "/sony/IRCC") :
              last.log[i].headers["Cookie"] = tv.auth_key.str

----------------------------------------------------------------------------
(* C4: for every command name present in the session's mapping, a call of
   its named action sends exactly one control request, to /sony/IRCC, whose
   IRCCCode element holds the mapping's value for that name. *)
C4_DispatchCarriesMappedCode ==
    (CallDone /\ last.method \in SingleMethods
              /\ CommandOf(last.method) \in DOMAIN tv.irc_codes) =>
        /\ Len(LastRequests) = 1
        /\ IsRequestTo(LastRequests[1], "/sony/IRCC")
        /\ IRCCCodeOf(LastRequests[1].data) = tv.irc_codes[CommandOf(last.method)]

C4_Witness ==
    /\ CallDone
    /\ last.method = "mute"
    /\ last.out.kind = "return"
    /\ Len(LastRequests) = 1
    /\ tv.irc_codes["Mute"] = "AAAAAgAAAMQAAABOAw=="

(* C5: dispatching a command name that is absent from the session's cached
   mapping fails with the key-lookup error (UnknownCommandError), issues no
   request, and leaves the session's credential and mapping unchanged. *)
AbsentDispatch(l) ==
    /\ l.out.kind # "none"
    /\ \/ l.method \in SingleMethods
       \/ l.method \in VolumeMethods /\ (IF l.args = <<>> THEN 5 ELSE l.args[1]) > 0
    /\ CommandOf(l.method) \notin DOMAIN tv.irc_codes

C5_UnknownCommand ==
    /\ [](phase = "active" /\ AbsentDispatch(last) =>
            /\ last.out = Raise("KeyError", CommandOf(last.method))
            /\ last.log = <<>>)
    /\ [][phase = "active" /\ AbsentDispatch(last') => tv' = tv]_vars

C5_Witness ==
    /\ CallDone
    /\ last.method = "pause"
    /\ last.out.exc = "KeyError"
    /\ DOMAIN tv.irc_codes = {"Play"}

(* C6: for command-code discovery, the power-state query and command
   dispatch alike, a response with a non-200 status makes the call fail with
   the same error kind, the RuntimeError that stands for ProtocolError. *)
EndsWithBadStatus(log) ==
    /\ log # <<>>
    /\ log[Len(log)].kind = "response"
    /\ log[Len(log)].resp.status # HTTP_OK
    /\ log[Len(log) - 1].url[3] \in {"/sony/system", "/sony/IRCC"}

C6_SameProtocolError ==
    /\ (ConnectDone /\ EndsWithBadStatus(connect_log)) =>
          connect_out.kind = "raise" /\ connect_out.exc = "RuntimeError"
    /\ (CallDone /\ EndsWithBadStatus(last.log)) =>
          last.out.kind = "raise" /\ last.out.exc = "RuntimeError"

(* C7: every call of an action method, volume_up and volume_down with any
   repeat count included, issues exactly one outbound request, so no call
   ends in failure after a request of it was already answered with 200. *)
C7_OneRequestPerCall ==
    (CallDone /\ last.method \in ActionMethods
              /\ CommandOf(last.method) \in DOMAIN tv.irc_codes) =>
        /\ Len(LastRequests) = 1
        /\ last.out.kind = "raise" => \A i \in DOMAIN StatusesOf(last.log) :
                                          StatusesOf(last.log)[i] # HTTP_OK

(* C7 as amended: a call of mute, pause, play, power_off, wake_up, home,
   netflix, enter or confirm issues exactly one request when its command name
   is in the cached mapping and none otherwise; a call of volume_up or
   volume_down with repeat count n issues at most max(n, 0) requests one
   after another, every one but the last answered with 200, all of them when
   it returns, and it raises at the first request answered otherwise, so it
   can end in failure after earlier requests were sent. *)
C7_RequestsPerCall ==
    (CallDone /\ last.method \in ActionMethods) =>
        LET n == IF last.args = <<>> THEN 5 ELSE last.args[1]
            k == Len(LastRequests)
            st == StatusesOf(last.log)
            known == CommandOf(last.method) \in DOMAIN tv.irc_codes
        IN  /\ last.out.kind \in {"return", "raise"}
            /\ last.method \in SingleMethods => k = (IF known THEN 1 ELSE 0)
            /\ last.method \in VolumeMethods =>
                  /\ Sequential(last.log)
                  /\ k <= (IF n > 0 THEN n ELSE 0)
                  /\ \A i \in 1..(k - 1) : st[i] = HTTP_OK
                  /\ last.out.kind = "return" =>
                        k = (IF n > 0 THEN n ELSE 0) /\ \A i \in 1..k : st[i] = HTTP_OK
                  /\ (last.out.kind = "raise" /\ known) => k >= 1 /\ st[k] # HTTP_OK

C7_Witness ==
    /\ CallDone
    /\ last.method = "volume_up"
    /\ last.out.kind = "raise"
    /\ Len(LastRequests) >= 2

----------------------------------------------------------------------------
(* C8: volume_up(n) and volume_down(n) that return have issued exactly n
   dispatch requests one after another, each to /sony/IRCC with the code of
   VolumeUp respectively VolumeDown, with n = 5 when no count is given and
   no request when n <= 0. *)
C8_VolumeRepeats ==
    (CallDone /\ last.method \in VolumeMethods /\ last.out.kind = "return") =>
        LET n == IF last.args = <<>> THEN 5 ELSE last.args[1]
            name == IF last.method = "volume_up" THEN "VolumeUp" ELSE "VolumeDown"
        IN  /\ Len(LastRequests) = (IF n <= 0 THEN 0 ELSE n)
            /\ Sequential(last.log)
            /\ \A i \in DOMAIN LastRequests :
                  /\ IsRequestTo(LastRequests[i], "/sony/IRCC")
                  /\ IRCCCodeOf(LastRequests[i].data) = tv.irc_codes[name]

C8_Witness ==
    /\ CallDone
    /\ last.method = "volume_down"
    /\ last.args = <<>>
    /\ last.out.kind = "return"
    /\ Len(LastRequests) = 5

(* C9: a session connect returned has had exactly one discovery request
   issued, right after the successful authentication attempt and as the last
   request of connect; when that discovery fails connect returns no session
   and makes no further authentication attempt; afterwards no action-method
   or is_on call changes the cached mapping or issues a discovery request. *)
MaxOf(S) == CHOOSE i \in S : \A j \in S : j <= i

C9_DiscoveryOnce ==
    /\ [](phase = "active" =>
            /\ Cardinality(DiscoveryPositions(connect_log)) = 1
            /\ DiscoveryPositions(connect_log) = {MaxOf(AuthPositions) + 2}
            /\ DiscoveryPositions(connect_log) = {Len(connect_log) - 1}
            /\ connect_out.kind = "return")
    /\ [](phase = "failed" /\ DiscoveryPositions(connect_log) # {} =>
            /\ DiscoveryPositions(connect_log) = {Len(connect_log) - 1}
            /\ \A i \in AuthPositions : i < Len(connect_log) - 1
            /\ tv = NoTV)
    /\ [][(phase = "active" /\ last'.method \in ActionMethods \cup {"is_on"}) =>
              tv' = tv /\ DiscoveryPositions(last'.log) = {}]_vars

C9_Witness ==
    /\ CallDone
    /\ last.method = "is_on"
    /\ last.out.kind = "return"
    /\ Cardinality(AuthPositions) = 2
    /\ Cardinality(DiscoveryPositions(connect_log)) = 1
    /\ DOMAIN tv.irc_codes = {"Netflix"}

(* C10: is_on issues one power-status request and, answered with status 200,
   returns true if and only if the status field of the first result element
   is exactly "active"; every other value, "Active" included, yields false. *)
C10_IsOnExactlyActive ==
    (CallDone /\ last.method = "is_on") =>
        /\ Len(LastRequests) = 1
        /\ IsRequestTo(LastRequests[1], "/sony/system")
        /\ LastRequests[1].data.method = "getPowerStatus"
        /\ (last.log[2].resp.status = 200 /\ Len(last.log[2].resp.json.result) >= 1) =>
              /\ last.out.kind = "return"
              /\ last.out.value.type = "bool"
              /\ last.out.value.str = "True" <=>
                    last.log[2].resp.json.result[1].status = "active"
              /\ last.log[2].resp.json.result[1].status = "Active" =>
                    last.out.value.str = "False"

C10_Witness ==
    /\ CallDone
    /\ last.method = "is_on"
    /\ last.log[2].resp.status = 200
    /\ Len(last.log[2].resp.json.result) >= 1
    /\ last.log[2].resp.json.result[1].status = "Active"
    /\ last.out.kind = "return"

====
